---- MODULE Spec2Model ----
(***************************************************************************)
(* TennisEloSystem (src/src/ratings/elo_system.py): the rating store, the  *)
(* snapshot log and the batch loop of process_matches.                     *)
(*                                                                         *)
(* Numbers.  Python floats are modelled as binary floating-point numbers   *)
(* with a MantBits-bit significand whose smallest step is 2^-QBits: a      *)
(* value v is held as the integer v * 2^QBits, and every arithmetic        *)
(* operation rounds its result to MantBits significant bits, ties to even, *)
(* as IEEE-754 arithmetic does.  10 ** x is computed by binary             *)
(* exponentiation over the roots 10^(1/2), 10^(1/4), ...                   *)
(***************************************************************************)
EXTENDS Integers, Sequences, FiniteSets, TLC

\* ---------------------------------------------------------------- bounds
QBits == 12          \* fractional bits of the number format
MantBits == 16       \* significand bits of the number format
MaxRecords == 2      \* rows the match feed supplies to one engine in a run
MaxRecordsDet == 2   \* the same, in the two-instance specification

\* ------------------------------------------------------ program constants
initial_rating == 1500
k_factor == 32
EloScale == 400

\* ------------------------------------------------------------- arithmetic
Pow2(n) == 2 ^ n
One == Pow2(QBits)
Num(n) == n * One
Abs(x) == IF x < 0 THEN -x ELSE x

RECURSIVE BitLen(_)
BitLen(n) == IF n = 0 THEN 0 ELSE 1 + BitLen(n \div 2)

RoundHalfEven(n, d) ==
    LET q == n \div d
        r == n % d
    IN  IF 2 * r < d THEN q
        ELSE IF 2 * r > d THEN q + 1
        ELSE IF q % 2 = 0 THEN q ELSE q + 1

\* the unit in the last place of x
Ulp(x) ==
    LET e == BitLen(Abs(x)) - MantBits
    IN  IF e <= 0 THEN 1 ELSE Pow2(e)

\* rounding of an exact result to the number format
Fl(x) == RoundHalfEven(x, Ulp(x)) * Ulp(x)

FAdd(a, b) == Fl(a + b)
FSub(a, b) == Fl(a - b)
FMulInt(k, a) == Fl(k * a)
FDivInt(a, n) == Fl(RoundHalfEven(a, n))
FRecip(a) == Fl(RoundHalfEven(One * One, a))

RECURSIVE ISqrt(_)
ISqrt(n) ==
    IF n < 2 THEN n
    ELSE LET s == 2 * ISqrt(n \div 4)
         IN  IF (s + 1) * (s + 1) <= n THEN s + 1 ELSE s

\* the roots 10^(1/2), 10^(1/4), ..., 10^(1/2^QBits)
RECURSIVE RootSeq(_, _)
RootSeq(k, prev) ==
    IF k > QBits THEN <<>>
    ELSE LET r == ISqrt(prev * One) IN <<r>> \o RootSeq(k + 1, r)

Roots == RootSeq(1, 10 * One)

\* 10 ** (f / 2^QBits) for 0 <= f < 2^QBits: the product of the roots the
\* bits of f select, from bit k on
RECURSIVE PowFrac(_, _, _)
PowFrac(f, k, acc) ==
    IF k > QBits THEN acc
    ELSE PowFrac(f, k + 1,
                 IF (f \div Pow2(QBits - k)) % 2 = 1
                 THEN RoundHalfEven(acc * Roots[k], One) ELSE acc)

\* 10 ** x
Pow10(x) ==
    LET a == Abs(x)
        p == (10 ^ (a \div One)) * PowFrac(a % One, 1, One)
    IN  IF x >= 0 THEN Fl(p) ELSE FRecip(Fl(p))

\* 1 / (1 + 10 ** ((rating_b - rating_a) / 400))
expected_probability(rating_a, rating_b) ==
    FRecip(FAdd(One, Pow10(FDivInt(FSub(rating_b, rating_a), EloScale))))

\* k_factor * (1 - expected)
rating_change(k, rating_w, rating_l) ==
    FMulInt(k, FSub(One, expected_probability(rating_w, rating_l)))

\* ------------------------------------------------------------ rating store
Surfaces == {"Hard", "Clay", "Grass", "Carpet"}
Fields == {"overall"} \cup Surfaces \cup {"matches_played"}

\* mutant: a new player starts with one match played
DefaultRecordPlayed(init) ==
    [f \in Fields |-> IF f = "matches_played" THEN Num(1) ELSE Num(init)]

\* the record the defaultdict factory builds for a missing player
DefaultRecord(init) ==
    [f \in Fields |-> IF f = "matches_played" THEN 0 ELSE Num(init)]

EmptyStore == [p \in {} |-> DefaultRecord(initial_rating)]

\* defaultdict.__getitem__: a missing key is inserted with the factory's value
Materialize(store, p) ==
    IF p \in DOMAIN store THEN store
    ELSE [q \in DOMAIN store \cup {p} |->
            IF q = p THEN DefaultRecord(initial_rating) ELSE store[q]]

\* dict.__setitem__ on a player's record: an absent key would be added
SetItem(rec, key, v) ==
    [k \in DOMAIN rec \cup {key} |-> IF k = key THEN v ELSE rec[k]]

\* self.ratings[p][key] += delta
AddItem(store, p, key, delta) ==
    [store EXCEPT ![p] = SetItem(store[p], key, FAdd(store[p][key], delta))]

\* self.ratings[p][key] -= delta
SubItem(store, p, key, delta) ==
    [store EXCEPT ![p] = SetItem(store[p], key, FSub(store[p][key], delta))]

\* the dictionary appended to match_ratings
Snapshot(match_idx, date, surface, winner_id, loser_id, wo, lo, ws, ls) ==
    [match_idx |-> match_idx, date |-> date, surface |-> surface,
     winner_id |-> winner_id, loser_id |-> loser_id,
     winner_elo_overall |-> wo, loser_elo_overall |-> lo,
     winner_elo_surface |-> ws, loser_elo_surface |-> ls]

\* mutant: the surface change is also credited to the winner's Grass rating
ApplyUpdatesGrass(store, winner_id, loser_id, surface, change_overall, change_surface) ==
    LET s1 == AddItem(store, winner_id, "overall", change_overall)
        s2 == SubItem(s1, loser_id, "overall", change_overall)
        s3 == AddItem(s2, winner_id, surface, change_surface)
        s4 == SubItem(s3, loser_id, surface, change_surface)
        s5 == AddItem(s4, winner_id, "matches_played", Num(1))
        s6 == AddItem(s5, loser_id, "matches_played", Num(1))
    IN  AddItem(s6, winner_id, "Grass", change_surface)

\* the store after the two overall updates, the two surface updates and the
\* two match-count updates, applied in the order of the statements
ApplyUpdates(store, winner_id, loser_id, surface, change_overall, change_surface) ==
    LET s1 == AddItem(store, winner_id, "overall", change_overall)
        s2 == SubItem(s1, loser_id, "overall", change_overall)
        s3 == AddItem(s2, winner_id, surface, change_surface)
        s4 == SubItem(s3, loser_id, surface, change_surface)
        s5 == AddItem(s4, winner_id, "matches_played", Num(1))
    IN  AddItem(s5, loser_id, "matches_played", Num(1))

\* whether the subscript [surface] of a player's record raises KeyError
KeyMissing(rec, surface) == surface \notin DOMAIN rec

\* mutant: the four values are read after the match has been applied
PreMatchLate(store, winner_id, loser_id, surface) ==
    LET c == rating_change(k_factor, store[winner_id]["overall"],
                           store[loser_id]["overall"])
        post == ApplyUpdates(store, winner_id, loser_id, surface, c, c)
    IN  [winner_overall |-> post[winner_id]["overall"],
         loser_overall |-> post[loser_id]["overall"],
         winner_surface |-> post[winner_id][surface],
         loser_surface |-> post[loser_id][surface]]

\* the four reads that open update_ratings, on a store that holds both
\* players and the surface key
PreMatch(store, winner_id, loser_id, surface) ==
    [winner_overall |-> store[winner_id]["overall"],
     loser_overall |-> store[loser_id]["overall"],
     winner_surface |-> store[winner_id][surface],
     loser_surface |-> store[loser_id][surface]]

\* mutant: the snapshot is put at the head of the list
PrependSnapshot(log, snap) == <<snap>> \o log

\* self.match_ratings.append(snapshot)
AppendSnapshot(log, snap) == Append(log, snap)

\* update_ratings: the result is the store, the log and whether KeyError
\* was raised (by the read of the surface key, after both players were read)
update_ratings(store, log, winner_id, loser_id, surface, date, match_idx) ==
    LET r1 == Materialize(store, winner_id)
        r2 == Materialize(r1, loser_id)
    IN  IF KeyMissing(r2[winner_id], surface)
        THEN [ratings |-> r2, match_ratings |-> log, raised |-> TRUE]
        ELSE
        LET pre == PreMatch(r2, winner_id, loser_id, surface)
            snap == Snapshot(match_idx, date, surface, winner_id, loser_id,
                             pre.winner_overall, pre.loser_overall,
                             pre.winner_surface, pre.loser_surface)
            change_overall == rating_change(k_factor, pre.winner_overall,
                                            pre.loser_overall)
            change_surface == rating_change(k_factor, pre.winner_surface,
                                            pre.loser_surface)
        IN  [ratings |-> ApplyUpdates(r2, winner_id, loser_id, surface,
                                      change_overall, change_surface),
             match_ratings |-> AppendSnapshot(log, snap),
             raised |-> FALSE]

\* ------------------------------------------------------------- match feed
\* The 'date' column holds ISO strings (year, month, day in fixed width), so
\* comparing the strings is comparing the triples lexicographically.
Dates == {<<2023, 12, 30>>, <<2024, 1, 2>>}

StrLess(a, b) ==
    \/ a[1] < b[1]
    \/ a[1] = b[1] /\ a[2] < b[2]
    \/ a[1] = b[1] /\ a[2] = b[2] /\ a[3] < b[3]

\* pd.to_datetime: the day count of the calendar date
ToDatetime(d) == 372 * d[1] + 31 * (d[2] - 1) + d[3]

FeedSurfaces == {"Hard", "Clay", "overall", "matches_played", "Sand", "NaN"}
FeedP1 == {"A"}
FeedP2 == {"A", "B"}
FeedWinner == {"A", "B"}
\* the players a caller reads from the store
ReadPlayers == {"A", "B"}

\* the columns of a row other than 'date'
Cols == [surface : FeedSurfaces, p1_id : FeedP1, p2_id : FeedP2,
         winner_id : FeedWinner]

\* a row whose other columns have not been read yet
Unread(d) == [date |-> d, drawn |-> FALSE, surface |-> "", p1_id |-> "",
              p2_id |-> "", winner_id |-> ""]

Read(d, c) == [date |-> d, drawn |-> TRUE, surface |-> c.surface,
               p1_id |-> c.p1_id, p2_id |-> c.p2_id, winner_id |-> c.winner_id]

\* no row: the loop variable outside the loop
NoRow == Unread(<<0, 0, 0>>)

\* the tables of n rows the feed can present
Tables(n) == [1..n -> {Unread(d) : d \in Dates}]

Permutations1(n) ==
    {s \in [1..n -> 1..n] : \A i, j \in 1..n : i # j => s[i] # s[j]}

\* sort_values('date') with the default kind='quicksort': the index labels in
\* an order that is ascending by key; the order of equal keys is not specified
sort_values(tbl) ==
    {s \in Permutations1(Len(tbl)) :
        \A i, j \in 1..Len(tbl) :
            i < j => ~StrLess(tbl[s[j]].date, tbl[s[i]].date)}

\* ------------------------------------------------------------------ state
Engines == {1, 2}
\* no value: nothing returned yet
NoValue == <<>>

VARIABLES
    ratings,        \* per engine: self.ratings, player -> record
    match_ratings,  \* per engine: self.match_ratings, the snapshot log
    pc,             \* per engine: "idle", "loop" (inside process_matches),
                    \*             "raised" (KeyError left process_matches)
    matches_df,     \* per engine: the sorted copy, as the index labels in order
    idx,            \* per engine: rows of the sorted copy already iterated
    processed,      \* per engine: the local counter processed
    skipped,        \* per engine: the local counter skipped
    match,          \* per engine: the loop variable match, the row last read
    ret,            \* per engine: the value the last process_matches returned
    calls,          \* per engine: process_matches calls made
    got,            \* the value the last store read returned
    table,          \* the DataFrame handed to process_matches
    fed             \* rows the feed has presented so far

vars == <<ratings, match_ratings, pc, matches_df, idx, processed, skipped,
          match, ret, calls, got, table, fed>>

Init ==
    /\ ratings = [e \in Engines |-> EmptyStore]
    /\ match_ratings = [e \in Engines |-> <<>>]
    /\ pc = [e \in Engines |-> "idle"]
    /\ matches_df = [e \in Engines |-> <<>>]
    /\ idx = [e \in Engines |-> 0]
    /\ processed = [e \in Engines |-> 0]
    /\ skipped = [e \in Engines |-> 0]
    /\ match = [e \in Engines |-> NoRow]
    /\ ret = [e \in Engines |-> NoValue]
    /\ calls = [e \in Engines |-> 0]
    /\ got = NoValue
    /\ table = <<>>
    /\ fed = 0

\* process_matches up to the loop, called on the same table by every engine
\* of E: the sort (the same function of the same input in each of them) and
\* the two counters
Start(E, limit) ==
    /\ \A e \in Engines : pc[e] = "idle"
    /\ \E n \in 1..(limit - fed) : \E tbl \in Tables(n) : \E s \in sort_values(tbl) :
        /\ table' = tbl
        /\ fed' = fed + n
        /\ matches_df' = [e \in Engines |-> IF e \in E THEN s ELSE matches_df[e]]
    /\ pc' = [e \in Engines |-> IF e \in E THEN "loop" ELSE pc[e]]
    /\ idx' = [e \in Engines |-> IF e \in E THEN 0 ELSE idx[e]]
    /\ processed' = [e \in Engines |-> IF e \in E THEN 0 ELSE processed[e]]
    /\ skipped' = [e \in Engines |-> IF e \in E THEN 0 ELSE skipped[e]]
    /\ calls' = [e \in Engines |-> IF e \in E THEN calls[e] + 1 ELSE calls[e]]
    /\ got' = NoValue
    /\ UNCHANGED <<ratings, match_ratings, match, ret>>

\* the loser of a row, or "" when winner_id is neither p1_id nor p2_id
Loser(row) ==
    IF row.winner_id = row.p1_id THEN row.p2_id
    ELSE IF row.winner_id = row.p2_id THEN row.p1_id
    ELSE ""

\* mutant: the skip is not counted
CountSkippedLost(n) == n

\* skipped += 1
CountSkipped(n) == n + 1

\* processed += 1
CountProcessed(n) == n + 1

\* mutant: match_ratings is one list, shared by the instances
SharedLog(e) == match_ratings[1]

\* self.match_ratings of engine e, an attribute of the instance
EngineLog(e) == match_ratings[e]

\* mutant: the else branch is missing, every row is handed on
IsValidAlways(row) == TRUE

\* whether the loop hands the row to update_ratings
IsValid(row) == row.winner_id = row.p1_id \/ row.winner_id = row.p2_id

\* the label of the row the loop of engine e reads next
NextLabel(e) == matches_df[e][idx[e] + 1]

\* one iteration of the loop of process_matches on row
Iterate(e, row) ==
    /\ IF ~IsValid(row)
       THEN /\ skipped' = [skipped EXCEPT ![e] = CountSkipped(@)]
            /\ idx' = [idx EXCEPT ![e] = @ + 1]
            /\ UNCHANGED <<ratings, match_ratings, pc, matches_df, processed>>
       ELSE \E u \in {update_ratings(ratings[e], EngineLog(e), row.winner_id,
                                     Loser(row), row.surface,
                                     ToDatetime(row.date), processed[e])} :
            /\ ratings' = [ratings EXCEPT ![e] = u.ratings]
            /\ match_ratings' = [match_ratings EXCEPT ![e] = u.match_ratings]
            /\ IF u.raised
               THEN /\ pc' = [pc EXCEPT ![e] = "raised"]
                    /\ matches_df' = [matches_df EXCEPT ![e] = <<>>]
                    /\ idx' = [idx EXCEPT ![e] = 0]
                    /\ processed' = [processed EXCEPT ![e] = 0]
                    /\ skipped' = [skipped EXCEPT ![e] = 0]
               ELSE /\ processed' = [processed EXCEPT ![e] = CountProcessed(@)]
                    /\ idx' = [idx EXCEPT ![e] = @ + 1]
                    /\ UNCHANGED <<pc, matches_df, skipped>>
    /\ match' = [match EXCEPT ![e] = IF pc'[e] = "raised" THEN NoRow ELSE row]

\* whether another engine still iterates over the same table
SharedTable(e) == \E o \in Engines \ {e} : pc[o] = "loop"

\* the loop body: iterrows yields the next row of the sorted copy. The
\* columns the sort did not inspect are fixed by the feed; they are drawn
\* when the first engine reads the row and kept for an engine that reads
\* the same table after it.
LoopBody(e) ==
    /\ pc[e] = "loop"
    /\ idx[e] < Len(matches_df[e])
    /\ \E c \in Cols :
        LET row == Read(table[NextLabel(e)].date, c)
        IN  /\ table[NextLabel(e)].drawn => table[NextLabel(e)] = row
            /\ table' = IF SharedTable(e)
                        THEN [table EXCEPT ![NextLabel(e)] = row] ELSE table
            /\ Iterate(e, row)
    /\ UNCHANGED <<ret, calls, got, fed>>

\* the end of process_matches: the summary and the return value
Return(e) ==
    /\ pc[e] = "loop"
    /\ idx[e] = Len(matches_df[e])
    /\ ret' = [ret EXCEPT ![e] = <<processed[e]>>]
    /\ pc' = [pc EXCEPT ![e] = "idle"]
    /\ matches_df' = [matches_df EXCEPT ![e] = <<>>]
    /\ idx' = [idx EXCEPT ![e] = 0]
    /\ processed' = [processed EXCEPT ![e] = 0]
    /\ skipped' = [skipped EXCEPT ![e] = 0]
    /\ match' = [match EXCEPT ![e] = NoRow]
    /\ table' = IF SharedTable(e) THEN table ELSE <<>>
    /\ UNCHANGED <<ratings, match_ratings, calls, got, fed>>

\* a read self.ratings[p][d] of an existing key d, between two batches
Get(e, p, d) ==
    /\ \A o \in Engines : pc[o] = "idle"
    /\ ratings' = [ratings EXCEPT ![e] = Materialize(ratings[e], p)]
    /\ got' = <<Materialize(ratings[e], p)[p][d]>>
    /\ UNCHANGED <<match_ratings, pc, matches_df, idx, processed, skipped,
                   match, ret, calls, table, fed>>

Next ==
    \/ Start({1}, MaxRecords)
    \/ LoopBody(1)
    \/ Return(1)
    \/ \E p \in ReadPlayers, d \in Fields : Get(1, p, d)

Spec == Init /\ [][Next]_vars

\* two fresh engines given the same tables
NextDet ==
    \/ Start({1, 2}, MaxRecordsDet)
    \/ \E e \in Engines : LoopBody(e)
    \/ \E e \in Engines : Return(e)

SpecDet == Init /\ [][NextDet]_vars

\* ----------------------------------------------------------------- claims
\* a step of engine e that appended a snapshot to its log
Appended(e) == Len(match_ratings'[e]) = Len(match_ratings[e]) + 1

\* the snapshot such a step appended
NewSnap(e) == match_ratings'[e][Len(match_ratings'[e])]

\* the value field f of player p has in the store of engine e before a
\* step; a player the store does not hold yet reads as the default record
Held(e, p, f) ==
    IF p \in DOMAIN ratings[e] THEN ratings[e][p][f]
    ELSE IF f = "matches_played" THEN 0 ELSE Num(initial_rating)

\* a step in which the loop of engine e consumed a row (and did not raise)
Consumed(e) == pc[e] = "loop" /\ pc'[e] = "loop" /\ idx'[e] = idx[e] + 1

\* C1 (snapshot causality): the four ratings of every appended snapshot are
\* the values the store held for those players and dimensions before the
\* step that applied the match.
C1_SnapshotCausality ==
    [][\A e \in Engines : Appended(e) =>
          /\ NewSnap(e).winner_elo_overall
               = Held(e, NewSnap(e).winner_id, "overall")
          /\ NewSnap(e).loser_elo_overall
               = Held(e, NewSnap(e).loser_id, "overall")
          /\ NewSnap(e).winner_elo_surface
               = Held(e, NewSnap(e).winner_id, NewSnap(e).surface)
          /\ NewSnap(e).loser_elo_surface
               = Held(e, NewSnap(e).loser_id, NewSnap(e).surface)]_vars

\* a snapshot of a match between two players with ratings that earlier
\* matches moved, whose winner's rating has moved again since
C1_Witness ==
    \E i \in 1..Len(match_ratings[1]) :
        LET s == match_ratings[1][i]
        IN  /\ s.winner_id # s.loser_id
            /\ s.surface \in Surfaces
            /\ s.winner_elo_overall # Num(initial_rating)
            /\ s.winner_elo_surface # s.winner_elo_overall
            /\ ratings[1][s.winner_id]["overall"] # s.winner_elo_overall

\* C2 (zero-sum), as claimed: in every call of update_ratings, on the
\* overall dimension and on the match surface, the winner's gain equals the
\* loser's loss and the sum of the two ratings is unchanged.
C2_ZeroSum ==
    [][\A e \in Engines : Appended(e) =>
          LET w == NewSnap(e).winner_id
              l == NewSnap(e).loser_id
          IN  \A d \in {"overall", NewSnap(e).surface} :
                /\ ratings'[e][w][d] - Held(e, w, d)
                     = Held(e, l, d) - ratings'[e][l][d]
                /\ ratings'[e][w][d] + ratings'[e][l][d]
                     = Held(e, w, d) + Held(e, l, d)]_vars

\* C3 (skip accounting): inside the loop processed + skipped is the number
\* of rows consumed, the sorted copy has every row of the input, and so at
\* the end of the loop the two counters add up to the input's length.
C3_SkipAccounting ==
    \A e \in Engines : pc[e] = "loop" =>
        /\ processed[e] + skipped[e] = idx[e]
        /\ idx[e] <= Len(matches_df[e])
        /\ Len(matches_df[e]) = Len(table)
        /\ (idx[e] = Len(matches_df[e])
              => processed[e] + skipped[e] = Len(table))

\* the loop has consumed a whole batch with one valid and one skipped row
C3_Witness ==
    /\ pc[1] = "loop"
    /\ idx[1] = Len(table)
    /\ processed[1] = 1
    /\ skipped[1] = 1

\* C4 (skip): a consumed row whose winner_id is neither p1_id nor p2_id
\* leaves the store and the log as they were, adds one to skipped and
\* leaves processed alone; and every appended snapshot takes the value of
\* processed as its match_idx, so skipped rows do not shift the indices.
C4_InvalidSkipped ==
    [][\A e \in Engines :
          /\ (Consumed(e) /\ match'[e].winner_id # match'[e].p1_id
                          /\ match'[e].winner_id # match'[e].p2_id)
               => /\ ratings'[e] = ratings[e]
                  /\ match_ratings'[e] = match_ratings[e]
                  /\ skipped'[e] = skipped[e] + 1
                  /\ processed'[e] = processed[e]
          /\ Appended(e) => /\ NewSnap(e).match_idx = processed[e]
                            /\ processed'[e] = processed[e] + 1
                            /\ skipped'[e] = skipped[e]]_vars

\* a valid row that followed a skipped row got match_idx 0
C4_Witness ==
    /\ pc[1] = "loop"
    /\ skipped[1] = 1
    /\ processed[1] = 1
    /\ match[1].winner_id = match[1].p2_id
    /\ Len(match_ratings[1]) = 1
    /\ match_ratings[1][1].match_idx = 0

\* C5 (configuration error), as claimed: a row handed to update_ratings
\* with a surface outside {Hard, Clay, Grass, Carpet} halts the engine: no
\* snapshot is ever appended for such a row and the loop never goes on to
\* the next row after it.
C5_UnrecognizedSurfaceHalts ==
    [][\A e \in Engines :
          /\ Appended(e) => NewSnap(e).surface \in Surfaces
          /\ (Consumed(e) /\ (\/ match'[e].winner_id = match'[e].p1_id
                              \/ match'[e].winner_id = match'[e].p2_id))
               => match'[e].surface \in Surfaces]_vars

\* a step that is a read of the store of engine e by a caller (Get, which
\* the callers of this model direct at engine 1)
IsRead(e) ==
    e = 1 /\ got' # NoValue /\ <<ratings[e], got>>' # <<ratings[e], got>>

\* C6 (lazy default): a read of a player the store does not hold creates
\* the record with the initial rating on overall and the four surfaces and
\* matches_played = 0 and returns that record's value; a read changes no
\* record the store already holds; a player update_ratings meets for the
\* first time enters with the same defaults (its snapshot shows them); and
\* every record of the store has exactly the six fields.
C6_LazyDefault ==
    [][\A e \in Engines :
          /\ IsRead(e) =>
               \E p \in DOMAIN ratings'[e], d \in Fields :
                  /\ got' = <<ratings'[e][p][d]>>
                  /\ DOMAIN ratings'[e] = DOMAIN ratings[e] \cup {p}
                  /\ \A q \in DOMAIN ratings[e] : ratings'[e][q] = ratings[e][q]
                  /\ p \notin DOMAIN ratings[e] =>
                       /\ \A f \in {"overall"} \cup Surfaces :
                             ratings'[e][p][f] = Num(initial_rating)
                       /\ ratings'[e][p]["matches_played"] = 0
                       /\ got' = <<IF d = "matches_played" THEN 0
                                   ELSE Num(initial_rating)>>
          /\ \A p \in DOMAIN ratings'[e] \ DOMAIN ratings[e] :
               /\ pc'[e] = "raised" =>
                    /\ \A f \in {"overall"} \cup Surfaces :
                          ratings'[e][p][f] = Num(initial_rating)
                    /\ ratings'[e][p]["matches_played"] = 0
               /\ Appended(e) =>
                    /\ p \in {NewSnap(e).winner_id, NewSnap(e).loser_id}
                    /\ p = NewSnap(e).winner_id =>
                         NewSnap(e).winner_elo_overall = Num(initial_rating)
                    /\ p = NewSnap(e).loser_id =>
                         NewSnap(e).loser_elo_overall = Num(initial_rating)
                    /\ \A f \in Surfaces \ {NewSnap(e).surface} :
                          ratings'[e][p][f] = Num(initial_rating)
          /\ \A p \in DOMAIN ratings'[e] : DOMAIN ratings'[e][p] = Fields]_vars

\* before any batch, a read of the unseen player B returned the initial
\* rating and left B in the store with matches_played = 0
C6_Witness ==
    /\ calls[1] = 0
    /\ got = <<Num(initial_rating)>>
    /\ DOMAIN ratings[1] = {"B"}
    /\ ratings[1]["B"]["matches_played"] = 0
    /\ ratings[1]["B"]["Carpet"] = Num(initial_rating)

\* C7 (processing order), as claimed: the rows are iterated in ascending
\* date order and rows with the same date in the order of the input.
C7_StableDateOrder ==
    \A e \in Engines : pc[e] = "loop" =>
        \A i, j \in 1..Len(matches_df[e]) : i < j =>
            /\ ToDatetime(table[matches_df[e][i]].date)
                 <= ToDatetime(table[matches_df[e][j]].date)
            /\ table[matches_df[e][i]].date = table[matches_df[e][j]].date
                 => matches_df[e][i] < matches_df[e][j]

C9_AppendOnly ==
    [][\A e \in Engines :
          /\ \/ match_ratings'[e] = match_ratings[e]
             \/ /\ Appended(e)
                /\ SubSeq(match_ratings'[e], 1, Len(match_ratings[e]))
                     = match_ratings[e]
          /\ Consumed(e) =>
               (Appended(e) <=> (\/ match'[e].winner_id = match'[e].p1_id
                                 \/ match'[e].winner_id = match'[e].p2_id))
          /\ ~Consumed(e) => match_ratings'[e] = match_ratings[e]
          /\ (pc[e] = "loop" /\ pc'[e] = "idle" /\ calls[e] = 1)
               => ret'[e] = <<Len(match_ratings'[e])>>]_vars

\* the first call returned 1 for a batch of two rows, one of them skipped
C9_Witness ==
    /\ pc[1] = "idle"
    /\ calls[1] = 1
    /\ fed = 2
    /\ ret[1] = <<1>>
    /\ Len(match_ratings[1]) = 1

\* C10 (update rule), as claimed: for every processed match and each of
\* the dimensions overall and surface, with delta = K * (1 - E) computed
\* from that dimension's pre-match ratings, the winner's rating becomes
\* pre + delta and the loser's pre - delta; and two unseen players on Hard
\* end at 1516 / 1484 on overall and Hard with matches_played = 1.
C10_UpdateRule ==
    [][\A e \in Engines : Appended(e) =>
          LET w == NewSnap(e).winner_id
              l == NewSnap(e).loser_id
          IN  /\ \A d \in {"overall", NewSnap(e).surface} :
                   LET delta == rating_change(k_factor, Held(e, w, d),
                                              Held(e, l, d))
                   IN  /\ ratings'[e][w][d] = FAdd(Held(e, w, d), delta)
                       /\ ratings'[e][l][d] = FSub(Held(e, l, d), delta)
              /\ (/\ w \notin DOMAIN ratings[e]
                  /\ l \notin DOMAIN ratings[e]
                  /\ NewSnap(e).surface = "Hard")
                   => /\ ratings'[e][w]["overall"] = Num(1516)
                      /\ ratings'[e][w]["Hard"] = Num(1516)
                      /\ ratings'[e][l]["overall"] = Num(1484)
                      /\ ratings'[e][l]["Hard"] = Num(1484)
                      /\ ratings'[e][w]["matches_played"] = Num(1)
                      /\ ratings'[e][l]["matches_played"] = Num(1)]_vars

\* C11 (frame of a valid match): a step that applied a match changes, in the
\* store, only overall, the match surface and matches_played of the winner
\* and of the loser: every other field of those two players and every field
\* of every other player keeps the value it held, and no player other than
\* the two enters the store.
C11_Frame ==
    [][\A e \in Engines : Appended(e) =>
          LET w == NewSnap(e).winner_id
              l == NewSnap(e).loser_id
              touched == {"overall", NewSnap(e).surface, "matches_played"}
          IN  /\ DOMAIN ratings'[e] = DOMAIN ratings[e] \cup {w, l}
              /\ \A p \in DOMAIN ratings'[e] : \A f \in Fields :
                    (p \notin {w, l} \/ f \notin touched)
                       => ratings'[e][p][f] = Held(e, p, f)]_vars

\* the second match between two distinct players was on Clay, after a first
\* one on Hard: the Hard ratings the first match moved are still what the
\* second snapshot's overall ratings show, and Grass is at its default
C11_Witness ==
    /\ Len(match_ratings[1]) = 2
    /\ LET a == match_ratings[1][1]
           b == match_ratings[1][2]
       IN  /\ a.winner_id # a.loser_id
           /\ {b.winner_id, b.loser_id} = {a.winner_id, a.loser_id}
           /\ a.surface = "Hard" /\ b.surface = "Clay"
           /\ ratings[1][a.winner_id]["Hard"] # Num(initial_rating)
           /\ ratings[1][a.winner_id]["Hard"]
                # ratings[1][a.winner_id]["overall"]
           /\ ratings[1][a.winner_id]["Grass"] = Num(initial_rating)

\* C12 (match index equals log position), as claimed: the snapshot at
\* 0-based position k of an engine's log has match_idx = k, after any
\* number of process_matches calls on that engine.
C12_MatchIdxIsPosition ==
    \A e \in Engines : \A i \in 1..Len(match_ratings[e]) :
        match_ratings[e][i].match_idx = i - 1

\* the number of snapshots of log whose field f (winner_id or loser_id)
\* names player p
RECURSIVE Named(_, _, _)
Named(log, f, p) ==
    IF log = <<>> THEN 0
    ELSE (IF Head(log)[f] = p THEN 1 ELSE 0) + Named(Tail(log), f, p)

\* the sum of matches_played over the players of set P in a store
RECURSIVE TotalPlayed(_, _)
TotalPlayed(store, P) ==
    IF P = {} THEN 0
    ELSE LET p == CHOOSE q \in P : TRUE
         IN  store[p]["matches_played"] + TotalPlayed(store, P \ {p})

\* C13 (match counts of store and log), as claimed: every player's
\* matches_played is the number of snapshots naming the player as winner
\* plus the number naming the player as loser, every player a snapshot
\* names is in the store, and matches_played summed over the store is twice
\* the length of the log.
C13_MatchCountConsistency ==
    \A e \in Engines :
        /\ \A i \in 1..Len(match_ratings[e]) :
              {match_ratings[e][i].winner_id, match_ratings[e][i].loser_id}
                 \subseteq DOMAIN ratings[e]
        /\ \A p \in DOMAIN ratings[e] :
              ratings[e][p]["matches_played"]
                 = Num(Named(match_ratings[e], "winner_id", p)
                         + Named(match_ratings[e], "loser_id", p))
        /\ TotalPlayed(ratings[e], DOMAIN ratings[e])
              = Num(2 * Len(match_ratings[e]))

\* C14 (state unchanged on configuration error), as claimed: a step in
\* which update_ratings raised on the surface key leaves the store of the
\* engine, with the set of players it holds, and its log exactly as they
\* were after the previous record.
C14_UnchangedOnError ==
    [][\A e \in Engines : (pc[e] = "loop" /\ pc'[e] = "raised") =>
          /\ ratings'[e] = ratings[e]
          /\ DOMAIN ratings'[e] = DOMAIN ratings[e]
          /\ match_ratings'[e] = match_ratings[e]]_vars

====
